---- MODULE Spec2Model ----
(***************************************************************************)
(* Limit-order matching engine of sandbox/order_matcher.py (class Engine). *)
(*                                                                         *)
(* Python objects are modelled by an object store: `objs` is the sequence   *)
(* of all Order objects ever constructed and an Order reference is an       *)
(* index into it (None is 0).  _by_seq and _by_id hold references, so the   *)
(* aliasing of one Order from both dictionaries is kept.                    *)
(*                                                                         *)
(* A heapq list is modelled by its contents in ascending tuple order: the   *)
(* value of heap[0] and the order in which heappop yields the entries       *)
(* depend only on the multiset of entries, which is what is kept.           *)
(*                                                                         *)
(* Prices and quantities are integers; wall-clock times (Order.time and     *)
(* the "time" field of a trade) are not modelled.                           *)
(***************************************************************************)
EXTENDS Integers, Sequences, FiniteSets, TLC

\* ------------------------------------------------------------------ bounds
MaxOrders == 4      \* add_order calls that allocate an id
MaxPrice  == 2      \* prices are 1..MaxPrice
MaxQty    == 2      \* submitted quantities are -1..MaxQty
NumProcs  == 2      \* callers whose add_order calls may interleave
MaxInitialCapacity == 8   \* initial_capacity arguments are 1..MaxInitialCapacity

Sides      == {"buy", "sell"}
Prices     == 1..MaxPrice
Quantities == (-1)..MaxQty
Procs      == 1..NumProcs

MinCapacity     == 8     \* max(8, initial_capacity)
MaxLoadPct      == 70    \* max_load = 0.70, in hundredths
DeletedCleanPct == 30    \* _deleted_clean_ratio = 0.3, in hundredths

\* keys of the hash table: Python ints.  0 and 16 share their low four bits
\* (the same home slot at capacity 8 and 16), -1 and -2 share their hash
Keys    == {0, 16, 3, 5, -1, -2}
\* values are payloads the table stores and returns but never inspects; two
\* of them make an overwrite visible
Values  == {1, 2}
Default == 0             \* the default of get (None)

None   == 0         \* absent Order reference (Order | None)
Absent == <<>>      \* None returned by best_bid / best_ask

\* ------------------------------------------------------------------- state
VARIABLES
  bids,              \* Engine.bids : heap of (-price, sequence)
  asks,              \* Engine.asks : heap of (price, sequence)
  _seq,              \* next value of the counter Engine._seq
  _next_order_id,    \* next value of the counter Engine._next_order_id
  trades,            \* Engine.trades
  _by_seq,           \* Engine._by_seq : sequence -> Order reference
  _by_id,            \* Engine._by_id  : id -> Order reference
  objs,              \* the Order objects constructed so far
  call,              \* the last call made on the engine and its arguments
  ret,               \* the value that call returned
  submitted,         \* history: id -> quantity passed to add_order
  procs,             \* per caller: the add_order call it is in the middle of
  table,             \* an OpenAddressingHashTable object
  ht_call,           \* the last call made on the table
  ht_ret,            \* how that call ended and what it returned
  shadow             \* history: key -> value of the inserts not yet deleted

engineVars == <<bids, asks, _seq, _next_order_id, trades, _by_seq, _by_id,
                objs, call, ret, submitted, procs>>

htVars == <<table, ht_call, ht_ret, shadow>>

vars == <<bids, asks, _seq, _next_order_id, trades, _by_seq, _by_id, objs,
          call, ret, submitted, procs, table, ht_call, ht_ret, shadow>>

\* The engine object as one value, passed to the methods below as `self`.
Engine ==
  [bids |-> bids, asks |-> asks, _seq |-> _seq,
   _next_order_id |-> _next_order_id, trades |-> trades,
   _by_seq |-> _by_seq, _by_id |-> _by_id, objs |-> objs]

\* ------------------------------------------------------------ dictionaries
EmptyDict == [k \in {} |-> None]

\* dict.get(k): the value, or None
get(d, k) == IF k \in DOMAIN d THEN d[k] ELSE None

\* d[k] = v
setitem(d, k, v) == [x \in DOMAIN d \cup {k} |-> IF x = k THEN v ELSE d[x]]

\* d.pop(k, None)
pop(d, k) == [x \in DOMAIN d \ {k} |-> d[x]]

\* ------------------------------------------------------------------- heapq
\* Python's tuple comparison on (key, sequence) pairs
TupleLess(a, b) == a[1] < b[1] \/ (a[1] = b[1] /\ a[2] < b[2])

\* heappush with ties between equal prices going to the newest entry
heappush_newest_first(heap, item) ==
  LET n == Cardinality({i \in 1..Len(heap) : heap[i][1] < item[1]})
  IN  SubSeq(heap, 1, n) \o <<item>> \o SubSeq(heap, n + 1, Len(heap))

\* heapq.heappush(heap, item)
heappush(heap, item) ==
  LET n == Cardinality({i \in 1..Len(heap) : ~TupleLess(item, heap[i])})
  IN  SubSeq(heap, 1, n) \o <<item>> \o SubSeq(heap, n + 1, Len(heap))

\* heapq.heappop(heap): the smallest entry and the heap without it
heappop(heap) == [item |-> Head(heap), heap |-> Tail(heap)]

\* --------------------------------------------------------------- Engine
Min(a, b) == IF a <= b THEN a ELSE b

HeapOf(self, side) == IF side = "buy" THEN self.bids ELSE self.asks

SetHeap(self, side, heap) ==
  IF side = "buy" THEN [self EXCEPT !.bids = heap]
                  ELSE [self EXCEPT !.asks = heap]

\* _push without the negation of the bid price
_push_bid_not_negated(self, order) ==
  LET o == self.objs[order] IN
  IF o.side = "buy"
    THEN [self EXCEPT !.bids = heappush(self.bids, <<o.price, o.sequence>>)]
    ELSE [self EXCEPT !.asks = heappush(self.asks, <<o.price, o.sequence>>)]

\* Engine._push: a bid is keyed by -price, an ask by price
_push(self, order) ==
  LET o == self.objs[order] IN
  IF o.side = "buy"
    THEN [self EXCEPT !.bids = heappush(self.bids, <<-o.price, o.sequence>>)]
    ELSE [self EXCEPT !.asks = heappush(self.asks, <<o.price, o.sequence>>)]

\* Engine._peek_top: drops stale entries from the top, returns the first
\* live order without removing its entry
RECURSIVE _peek_top(_, _)
_peek_top(self, side) ==
  LET heap == HeapOf(self, side) IN
  IF heap = <<>>
    THEN [self |-> self, ret |-> None]
    ELSE LET seq == heap[1][2]
             o   == get(self._by_seq, seq)
         IN  IF o = None \/ self.objs[o].quantity <= 0
               THEN _peek_top(SetHeap(self, side, heappop(heap).heap), side)
               ELSE [self |-> self, ret |-> o]

\* Engine._pop_top: pops entries until one resolves to a live order
RECURSIVE _pop_top(_, _)
_pop_top(self, side) ==
  LET heap == HeapOf(self, side) IN
  IF heap = <<>>
    THEN [self |-> self, ret |-> None]
    ELSE LET p    == heappop(heap)
             seq  == p.item[2]
             o    == get(self._by_seq, seq)
             rest == SetHeap(self, side, p.heap)
         IN  IF o # None /\ self.objs[o].quantity > 0
               THEN [self |-> rest, ret |-> o]
               ELSE _pop_top(rest, side)

\* best_bid reading the top with _pop_top
best_bid_pops(self) ==
  LET r == _pop_top(self, "buy") IN
  [self |-> r.self,
   ret  |-> IF r.ret # None
              THEN <<r.self.objs[r.ret].price, r.self.objs[r.ret].quantity>>
              ELSE Absent]

\* Engine.best_bid
best_bid(self) ==
  LET r == _peek_top(self, "buy") IN
  [self |-> r.self,
   ret  |-> IF r.ret # None
              THEN <<r.self.objs[r.ret].price, r.self.objs[r.ret].quantity>>
              ELSE Absent]

\* best_ask reading the top with _pop_top
best_ask_pops(self) ==
  LET r == _pop_top(self, "sell") IN
  [self |-> r.self,
   ret  |-> IF r.ret # None
              THEN <<r.self.objs[r.ret].price, r.self.objs[r.ret].quantity>>
              ELSE Absent]

\* Engine.best_ask
best_ask(self) ==
  LET r == _peek_top(self, "sell") IN
  [self |-> r.self,
   ret  |-> IF r.ret # None
              THEN <<r.self.objs[r.ret].price, r.self.objs[r.ret].quantity>>
              ELSE Absent]

\* _record_trade logging the taker's limit price
_record_trade_taker_price(self, price, quantity, taker_side, maker_id, taker_id) ==
  [self EXCEPT !.trades = Append(self.trades,
     [price          |-> self.objs[CHOOSE r \in 1..Len(self.objs) :
                                     self.objs[r].id = taker_id].price,
      quantity       |-> quantity,
      taker_side     |-> taker_side,
      maker_order_id |-> maker_id,
      taker_order_id |-> taker_id])]

\* _record_trade putting the new record at the front of the log
_record_trade_at_front(self, price, quantity, taker_side, maker_id, taker_id) ==
  [self EXCEPT !.trades =
     <<[price          |-> price,
        quantity       |-> quantity,
        taker_side     |-> taker_side,
        maker_order_id |-> maker_id,
        taker_order_id |-> taker_id]>> \o self.trades]

\* Engine._record_trade
_record_trade(self, price, quantity, taker_side, maker_id, taker_id) ==
  [self EXCEPT !.trades = Append(self.trades,
     [price          |-> price,
      quantity       |-> quantity,
      taker_side     |-> taker_side,
      maker_order_id |-> maker_id,
      taker_order_id |-> taker_id])]

\* _cleanup that leaves the maker's quantity as it was
_cleanup_maker_not_decremented(self, taker, maker, quantity) ==
  LET s2 == [self EXCEPT !.objs[taker].quantity = @ - quantity]
  IN  IF s2.objs[maker].quantity > 0
        THEN _push(s2, maker)
        ELSE [s2 EXCEPT !._by_seq = pop(@, s2.objs[maker].sequence),
                        !._by_id  = pop(@, s2.objs[maker].id)]

\* _cleanup that removes a filled maker from _by_seq only
_cleanup_by_id_kept(self, taker, maker, quantity) ==
  LET s1 == [self EXCEPT !.objs[taker].quantity = @ - quantity]
      s2 == [s1 EXCEPT !.objs[maker].quantity = @ - quantity]
  IN  IF s2.objs[maker].quantity > 0
        THEN _push(s2, maker)
        ELSE [s2 EXCEPT !._by_seq = pop(@, s2.objs[maker].sequence)]

\* _cleanup that re-inserts a partially filled maker under a new sequence
_cleanup_new_sequence(self, taker, maker, quantity) ==
  LET s1 == [self EXCEPT !.objs[taker].quantity = @ - quantity]
      s2 == [s1 EXCEPT !.objs[maker].quantity = @ - quantity]
  IN  IF s2.objs[maker].quantity > 0
        THEN _push([s2 EXCEPT
                      !._seq = @ + 1,
                      !.objs[maker].sequence = s2._seq,
                      !._by_seq = setitem(pop(@, s2.objs[maker].sequence),
                                          s2._seq, maker)],
                   maker)
        ELSE [s2 EXCEPT !._by_seq = pop(@, s2.objs[maker].sequence),
                        !._by_id  = pop(@, s2.objs[maker].id)]

\* Engine._cleanup
_cleanup(self, taker, maker, quantity) ==
  LET s1 == [self EXCEPT !.objs[taker].quantity = @ - quantity]
      s2 == [s1 EXCEPT !.objs[maker].quantity = @ - quantity]
  IN  IF s2.objs[maker].quantity > 0
        THEN _push(s2, maker)
        ELSE [s2 EXCEPT !._by_seq = pop(@, s2.objs[maker].sequence),
                        !._by_id  = pop(@, s2.objs[maker].id)]

\* _match_buy with the crossing test the wrong way round
RECURSIVE _match_buy_wrong_test(_, _)
_match_buy_wrong_test(self, taker) ==
  IF ~(self.objs[taker].quantity > 0 /\ self.asks # <<>>)
    THEN self
    ELSE
      LET pk   == _peek_top(self, "sell")
          best == pk.ret
      IN  IF best = None \/ pk.self.objs[best].price < pk.self.objs[taker].price
            THEN pk.self
            ELSE
              LET pp       == _pop_top(pk.self, "sell")
                  maker    == pp.ret
                  quantity == Min(pp.self.objs[taker].quantity,
                                  pp.self.objs[maker].quantity)
                  s1 == _record_trade(pp.self, pp.self.objs[maker].price,
                                      quantity, "buy",
                                      pp.self.objs[maker].id,
                                      pp.self.objs[taker].id)
              IN  _match_buy_wrong_test(_cleanup(s1, taker, maker, quantity),
                                        taker)

\* _match_buy taking the best ask off the queue before testing its price
RECURSIVE _match_buy_pop_before_test(_, _)
_match_buy_pop_before_test(self, taker) ==
  IF ~(self.objs[taker].quantity > 0 /\ self.asks # <<>>)
    THEN self
    ELSE
      LET pp    == _pop_top(self, "sell")
          maker == pp.ret
      IN  IF maker = None
               \/ pp.self.objs[maker].price > pp.self.objs[taker].price
            THEN pp.self
            ELSE
              LET quantity == Min(pp.self.objs[taker].quantity,
                                  pp.self.objs[maker].quantity)
                  s1 == _record_trade(pp.self, pp.self.objs[maker].price,
                                      quantity, "buy",
                                      pp.self.objs[maker].id,
                                      pp.self.objs[taker].id)
              IN  _match_buy_pop_before_test(
                    _cleanup(s1, taker, maker, quantity), taker)

\* Engine._match_buy
RECURSIVE _match_buy(_, _)
_match_buy(self, taker) ==
  IF ~(self.objs[taker].quantity > 0 /\ self.asks # <<>>)
    THEN self
    ELSE
      LET pk   == _peek_top(self, "sell")
          best == pk.ret
      IN  IF best = None \/ pk.self.objs[best].price > pk.self.objs[taker].price
            THEN pk.self
            ELSE
              LET pp       == _pop_top(pk.self, "sell")
                  maker    == pp.ret
                  quantity == Min(pp.self.objs[taker].quantity,
                                  pp.self.objs[maker].quantity)
                  s1 == _record_trade(pp.self, pp.self.objs[maker].price,
                                      quantity, "buy",
                                      pp.self.objs[maker].id,
                                      pp.self.objs[taker].id)
              IN  _match_buy(_cleanup(s1, taker, maker, quantity), taker)

\* _match_sell making one fill at most (an if in place of the while)
_match_sell_single_fill(self, taker) ==
  IF ~(self.objs[taker].quantity > 0 /\ self.bids # <<>>)
    THEN self
    ELSE
      LET pk   == _peek_top(self, "buy")
          best == pk.ret
      IN  IF best = None \/ pk.self.objs[best].price < pk.self.objs[taker].price
            THEN pk.self
            ELSE
              LET pp       == _pop_top(pk.self, "buy")
                  maker    == pp.ret
                  quantity == Min(pp.self.objs[taker].quantity,
                                  pp.self.objs[maker].quantity)
                  s1 == _record_trade(pp.self, pp.self.objs[maker].price,
                                      quantity, "sell",
                                      pp.self.objs[maker].id,
                                      pp.self.objs[taker].id)
              IN  _cleanup(s1, taker, maker, quantity)

\* _match_sell filling the maker it peeked without popping its entry
RECURSIVE _match_sell_peeks(_, _)
_match_sell_peeks(self, taker) ==
  IF ~(self.objs[taker].quantity > 0 /\ self.bids # <<>>)
    THEN self
    ELSE
      LET pk   == _peek_top(self, "buy")
          best == pk.ret
      IN  IF best = None \/ pk.self.objs[best].price < pk.self.objs[taker].price
            THEN pk.self
            ELSE
              LET pp       == _peek_top(pk.self, "buy")
                  maker    == pp.ret
                  quantity == Min(pp.self.objs[taker].quantity,
                                  pp.self.objs[maker].quantity)
                  s1 == _record_trade(pp.self, pp.self.objs[maker].price,
                                      quantity, "sell",
                                      pp.self.objs[maker].id,
                                      pp.self.objs[taker].id)
              IN  _match_sell_peeks(_cleanup(s1, taker, maker, quantity),
                                    taker)

\* Engine._match_sell
RECURSIVE _match_sell(_, _)
_match_sell(self, taker) ==
  IF ~(self.objs[taker].quantity > 0 /\ self.bids # <<>>)
    THEN self
    ELSE
      LET pk   == _peek_top(self, "buy")
          best == pk.ret
      IN  IF best = None \/ pk.self.objs[best].price < pk.self.objs[taker].price
            THEN pk.self
            ELSE
              LET pp       == _pop_top(pk.self, "buy")
                  maker    == pp.ret
                  quantity == Min(pp.self.objs[taker].quantity,
                                  pp.self.objs[maker].quantity)
                  s1 == _record_trade(pp.self, pp.self.objs[maker].price,
                                      quantity, "sell",
                                      pp.self.objs[maker].id,
                                      pp.self.objs[taker].id)
              IN  _match_sell(_cleanup(s1, taker, maker, quantity), taker)

\* add_order rejecting negative quantities only
add_order_accepts_zero(self, side, price, quantity) ==
  IF quantity < 0
    THEN [self |-> self, ret |-> 0]
    ELSE
      LET seq      == self._seq
          order_id == self._next_order_id
          taker    == Len(self.objs) + 1
          s0 == [self EXCEPT
                   !._seq = @ + 1,
                   !._next_order_id = @ + 1,
                   !.objs = Append(@, [id       |-> order_id,
                                       side     |-> side,
                                       price    |-> price,
                                       quantity |-> quantity,
                                       sequence |-> seq])]
          s1 == IF side = "buy" THEN _match_buy(s0, taker)
                                ELSE _match_sell(s0, taker)
      IN  IF s1.objs[taker].quantity > 0
            THEN [self |-> _push([s1 EXCEPT
                                    !._by_seq = setitem(@, seq, taker),
                                    !._by_id  = setitem(@, order_id, taker)],
                                 taker),
                  ret  |-> order_id]
            ELSE [self |-> s1, ret |-> 0]

\* add_order resting the taker also when nothing of it remains
add_order_rests_filled(self, side, price, quantity) ==
  IF quantity <= 0
    THEN [self |-> self, ret |-> 0]
    ELSE
      LET seq      == self._seq
          order_id == self._next_order_id
          taker    == Len(self.objs) + 1
          s0 == [self EXCEPT
                   !._seq = @ + 1,
                   !._next_order_id = @ + 1,
                   !.objs = Append(@, [id       |-> order_id,
                                       side     |-> side,
                                       price    |-> price,
                                       quantity |-> quantity,
                                       sequence |-> seq])]
          s1 == IF side = "buy" THEN _match_buy(s0, taker)
                                ELSE _match_sell(s0, taker)
      IN  IF s1.objs[taker].quantity >= 0
            THEN [self |-> _push([s1 EXCEPT
                                    !._by_seq = setitem(@, seq, taker),
                                    !._by_id  = setitem(@, order_id, taker)],
                                 taker),
                  ret  |-> order_id]
            ELSE [self |-> s1, ret |-> 0]

\* add_order taking its id only when the order comes to rest
add_order_id_when_resting(self, side, price, quantity) ==
  IF quantity <= 0
    THEN [self |-> self, ret |-> 0]
    ELSE
      LET seq      == self._seq
          order_id == self._next_order_id
          taker    == Len(self.objs) + 1
          s0 == [self EXCEPT
                   !._seq = @ + 1,
                   !.objs = Append(@, [id       |-> order_id,
                                       side     |-> side,
                                       price    |-> price,
                                       quantity |-> quantity,
                                       sequence |-> seq])]
          s1 == IF side = "buy" THEN _match_buy(s0, taker)
                                ELSE _match_sell(s0, taker)
      IN  IF s1.objs[taker].quantity > 0
            THEN [self |-> _push([s1 EXCEPT
                                    !._next_order_id = @ + 1,
                                    !._by_seq = setitem(@, seq, taker),
                                    !._by_id  = setitem(@, order_id, taker)],
                                 taker),
                  ret  |-> order_id]
            ELSE [self |-> s1, ret |-> 0]

\* Engine.add_order
add_order(self, side, price, quantity) ==
  IF quantity <= 0
    THEN [self |-> self, ret |-> 0]
    ELSE
      LET seq      == self._seq
          order_id == self._next_order_id
          taker    == Len(self.objs) + 1
          s0 == [self EXCEPT
                   !._seq = @ + 1,
                   !._next_order_id = @ + 1,
                   !.objs = Append(@, [id       |-> order_id,
                                       side     |-> side,
                                       price    |-> price,
                                       quantity |-> quantity,
                                       sequence |-> seq])]
          s1 == IF side = "buy" THEN _match_buy(s0, taker)
                                ELSE _match_sell(s0, taker)
      IN  IF s1.objs[taker].quantity > 0
            THEN [self |-> _push([s1 EXCEPT
                                    !._by_seq = setitem(@, seq, taker),
                                    !._by_id  = setitem(@, order_id, taker)],
                                 taker),
                  ret  |-> order_id]
            ELSE [self |-> s1, ret |-> 0]

\* ------------------------------------------------------------ transitions
\* ------------------------------------------------ OpenAddressingHashTable
\* sandbox/hash_table.py.  The table object is one record of its attributes;
\* _storage maps the indices 0.._capacity-1 to slots.  A probing loop that
\* has looked at every slot without leaving would look at them again in the
\* same state for ever: the operators report that as status "diverges".

\* the module-level sentinels and the _Entry dataclass
_EMPTY   == [kind |-> "EMPTY",   key |-> 0, value |-> 0, h |-> 0]
_DELETED == [kind |-> "DELETED", key |-> 0, value |-> 0, h |-> 0]
_Entry(key, value, h) == [kind |-> "ENTRY", key |-> key, value |-> value, h |-> h]

\* hash(key) of a Python int of small magnitude: the int itself, but -2 for -1
hash(key) == IF key = -1 THEN -2 ELSE key

\* h & mask for a mask of the form 2^n - 1 (two's complement for h < 0)
BitAnd(h, mask) == h % (mask + 1)

\* int(capacity * ratio) for a ratio given in hundredths
IntOfProduct(capacity, pct) == (capacity * pct) \div 100

Max(a, b) == IF a >= b THEN a ELSE b

\* OpenAddressingHashTable._next_pow2
RECURSIVE next_pow2_from(_, _)
next_pow2_from(cap, n) == IF cap < n THEN next_pow2_from(cap * 2, n) ELSE cap

_next_pow2(n) == next_pow2_from(1, n)

\* OpenAddressingHashTable.__init__ with the default max_load
OpenAddressingHashTable(initial_capacity) ==
  LET capacity == _next_pow2(Max(MinCapacity, initial_capacity)) IN
  [_capacity         |-> capacity,
   _storage          |-> [i \in 0..(capacity - 1) |-> _EMPTY],
   _mask             |-> capacity - 1,
   _size             |-> 0,
   _resize_threshold |-> IntOfProduct(capacity, MaxLoadPct),
   _deleted_count    |-> 0]

\* the inner while of _rehash_into: the first EMPTY index from idx on
RECURSIVE free_index(_, _, _)
free_index(new_table, idx, new_mask) ==
  IF new_table[idx] # _EMPTY
    THEN free_index(new_table, BitAnd(idx + 1, new_mask), new_mask)
    ELSE idx

\* the for loop of _rehash_into over the old slots i, i+1, ...
RECURSIVE rehash_slots(_, _, _, _)
rehash_slots(storage, i, new_table, new_mask) ==
  IF i \notin DOMAIN storage THEN new_table
  ELSE IF storage[i].kind # "ENTRY"
    THEN rehash_slots(storage, i + 1, new_table, new_mask)
    ELSE LET idx == free_index(new_table, BitAnd(storage[i].h, new_mask),
                               new_mask)
         IN  rehash_slots(storage, i + 1,
                          [new_table EXCEPT ![idx] = storage[i]], new_mask)

\* OpenAddressingHashTable._rehash_into
_rehash_into(self, new_capacity) ==
  LET capacity == _next_pow2(Max(MinCapacity, new_capacity))
      new_mask == capacity - 1
  IN  [_capacity         |-> capacity,
       _storage          |-> rehash_slots(self._storage, 0,
                              [i \in 0..(capacity - 1) |-> _EMPTY], new_mask),
       _mask             |-> new_mask,
       _size             |-> self._size,
       _resize_threshold |-> IntOfProduct(capacity, MaxLoadPct),
       _deleted_count    |-> 0]

\* OpenAddressingHashTable._resize
_resize(self) == _rehash_into(self, self._capacity * 2)

\* OpenAddressingHashTable._rehash_clean
_rehash_clean(self) == _rehash_into(self, self._capacity)

\* OpenAddressingHashTable._maybe_grow_or_clean
_maybe_grow_or_clean(self) ==
  IF self._size + 1 > self._resize_threshold
    THEN _resize(self)
    ELSE IF self._deleted_count
              > IntOfProduct(self._capacity, DeletedCleanPct)
      THEN _rehash_clean(self)
      ELSE self

NoIndex == -1     \* first_deletion_index = None

\* the while loop of insert storing the entry in the first tombstone it meets,
\* without looking for the key further along the probe sequence
RECURSIVE insert_probe_first_tombstone(_, _, _, _, _, _, _)
insert_probe_first_tombstone(self, key, value, h, target_index, first_deletion_index, n) ==
  IF n >= self._capacity THEN [status |-> "diverges", self |-> self]
  ELSE
    LET target_slot == self._storage[target_index] IN
    IF target_slot = _EMPTY \/ target_slot = _DELETED
      THEN [status |-> "ok",
            self   |-> [self EXCEPT
              !._storage[target_index] = _Entry(key, value, h),
              !._size = @ + 1,
              !._deleted_count = IF target_slot = _DELETED THEN @ - 1 ELSE @]]
    ELSE IF target_slot.h = h /\ target_slot.key = key
      THEN [status |-> "ok",
            self   |-> [self EXCEPT !._storage[target_index].value = value]]
    ELSE insert_probe_first_tombstone(self, key, value, h,
                                      BitAnd(target_index + 1, self._mask),
                                      first_deletion_index, n + 1)

\* the while loop of insert
RECURSIVE insert_probe(_, _, _, _, _, _, _)
insert_probe(self, key, value, h, target_index, first_deletion_index, n) ==
  IF n >= self._capacity THEN [status |-> "diverges", self |-> self]
  ELSE
    LET target_slot == self._storage[target_index] IN
    IF target_slot = _EMPTY
      THEN LET idx == IF first_deletion_index # NoIndex
                        THEN first_deletion_index ELSE target_index
           IN  [status |-> "ok",
                self   |-> [self EXCEPT
                  !._storage[idx] = _Entry(key, value, h),
                  !._size = @ + 1,
                  !._deleted_count =
                     IF first_deletion_index # NoIndex THEN @ - 1 ELSE @]]
    ELSE IF target_slot = _DELETED
      THEN insert_probe(self, key, value, h,
                        BitAnd(target_index + 1, self._mask),
                        IF first_deletion_index = NoIndex
                          THEN target_index ELSE first_deletion_index,
                        n + 1)
    ELSE IF target_slot.h = h /\ target_slot.key = key
      THEN [status |-> "ok",
            self   |-> [self EXCEPT !._storage[target_index].value = value]]
    ELSE insert_probe(self, key, value, h,
                      BitAnd(target_index + 1, self._mask),
                      first_deletion_index, n + 1)

\* OpenAddressingHashTable.insert
insert(self, key, value) ==
  LET s0 == _maybe_grow_or_clean(self)
      h  == hash(key)
      r  == insert_probe(s0, key, value, h, BitAnd(h, s0._mask), NoIndex, 0)
  IN  IF r.status # "ok" THEN r
      ELSE IF r.self._size > r.self._resize_threshold
        THEN [status |-> "ok", self |-> _resize(r.self)]
        ELSE r

\* the while loop of get
RECURSIVE get_probe(_, _, _, _, _, _)
get_probe(self, key, default, h, target_index, n) ==
  IF n >= self._capacity THEN [status |-> "diverges", value |-> default]
  ELSE
    LET target_slot == self._storage[target_index] IN
    IF target_slot = _EMPTY
      THEN [status |-> "ok", value |-> default]
    ELSE IF target_slot # _DELETED /\ target_slot.h = h
                                   /\ target_slot.key = key
      THEN [status |-> "ok", value |-> target_slot.value]
    ELSE get_probe(self, key, default, h,
                   BitAnd(target_index + 1, self._mask), n + 1)

\* OpenAddressingHashTable.get
ht_get(self, key, default) ==
  get_probe(self, key, default, hash(key), BitAnd(hash(key), self._mask), 0)

\* the while loop of delete leaving _deleted_count as it was
RECURSIVE delete_probe_not_counted(_, _, _, _, _)
delete_probe_not_counted(self, key, h, target_index, n) ==
  IF n >= self._capacity THEN [status |-> "diverges", self |-> self]
  ELSE
    LET target_slot == self._storage[target_index] IN
    IF target_slot = _EMPTY
      THEN [status |-> "KeyError", self |-> self]
    ELSE IF target_slot # _DELETED /\ target_slot.h = h
                                   /\ target_slot.key = key
      THEN LET s1 == [self EXCEPT !._storage[target_index] = _DELETED,
                                  !._size = @ - 1]
           IN  [status |-> "ok",
                self   |-> IF s1._deleted_count * 100
                                >= DeletedCleanPct * s1._capacity
                             THEN _rehash_clean(s1) ELSE s1]
    ELSE delete_probe_not_counted(self, key, h,
                                  BitAnd(target_index + 1, self._mask), n + 1)

\* the while loop of delete
RECURSIVE delete_probe(_, _, _, _, _)
delete_probe(self, key, h, target_index, n) ==
  IF n >= self._capacity THEN [status |-> "diverges", self |-> self]
  ELSE
    LET target_slot == self._storage[target_index] IN
    IF target_slot = _EMPTY
      THEN [status |-> "KeyError", self |-> self]
    ELSE IF target_slot # _DELETED /\ target_slot.h = h
                                   /\ target_slot.key = key
      THEN LET s1 == [self EXCEPT !._storage[target_index] = _DELETED,
                                  !._size = @ - 1,
                                  !._deleted_count = @ + 1]
           IN  [status |-> "ok",
                self   |-> IF s1._deleted_count * 100
                                >= DeletedCleanPct * s1._capacity
                             THEN _rehash_clean(s1) ELSE s1]
    ELSE delete_probe(self, key, h, BitAnd(target_index + 1, self._mask),
                      n + 1)

\* OpenAddressingHashTable.delete
delete(self, key) ==
  delete_probe(self, key, hash(key), BitAnd(hash(key), self._mask), 0)

\* OpenAddressingHashTable.__len__
len(self) == self._size

\* a caller that is not inside add_order; result is what its last call
\* returned (-1 stands for the AttributeError raised on maker = None)
Idle ==
  [pc |-> "idle", side |-> "buy", price |-> 0, seq |-> 0, order_id |-> 0,
   taker |-> None, best |-> None, maker |-> None, fill |-> 0, result |-> 0]

\* Engine.__init__
Init ==
  /\ bids = <<>>
  /\ asks = <<>>
  /\ _seq = 0
  /\ _next_order_id = 1
  /\ trades = <<>>
  /\ _by_seq = EmptyDict
  /\ _by_id = EmptyDict
  /\ objs = <<>>
  /\ call = [op |-> "__init__"]
  /\ ret = None
  /\ submitted = EmptyDict
  /\ procs = [p \in Procs |-> Idle]
  /\ table = OpenAddressingHashTable(MinCapacity)
  /\ ht_call = [op |-> "__init__", events |-> {}]
  /\ ht_ret = [status |-> "ok", value |-> Default]
  /\ shadow = EmptyDict

Install(self) ==
  /\ bids' = self.bids
  /\ asks' = self.asks
  /\ _seq' = self._seq
  /\ _next_order_id' = self._next_order_id
  /\ trades' = self.trades
  /\ _by_seq' = self._by_seq
  /\ _by_id' = self._by_id
  /\ objs' = self.objs

\* ---- add_order taken one step of the matching loop at a time, for
\* ---- callers that do not serialise their calls

\* add_order up to the start of the matching loop: the quantity test, the
\* two counters and the construction of the taker
Begin(p) ==
  /\ procs[p].pc = "idle"
  /\ _next_order_id <= MaxOrders
  /\ \E side \in Sides, price \in Prices, quantity \in Quantities :
       IF quantity <= 0
         THEN /\ procs' = [procs EXCEPT ![p].result = 0]
              /\ UNCHANGED <<bids, asks, _seq, _next_order_id, trades,
                             _by_seq, _by_id, objs, call, ret, submitted,
                             htVars>>
         ELSE /\ objs' = Append(objs, [id       |-> _next_order_id,
                                       side     |-> side,
                                       price    |-> price,
                                       quantity |-> quantity,
                                       sequence |-> _seq])
              /\ _seq' = _seq + 1
              /\ _next_order_id' = _next_order_id + 1
              /\ submitted' = setitem(submitted, _next_order_id, quantity)
              /\ procs' = [procs EXCEPT ![p] =
                   [pc |-> "loop", side |-> side, price |-> price,
                    seq |-> _seq, order_id |-> _next_order_id,
                    taker |-> Len(objs) + 1, best |-> None, maker |-> None,
                    fill |-> 0, result |-> 0]]
              /\ UNCHANGED <<bids, asks, trades, _by_seq, _by_id, call, ret,
                             htVars>>

\* the loop condition and the peek at the best opposite order
LoopPeek(p) ==
  /\ procs[p].pc = "loop"
  /\ LET opp == IF procs[p].side = "buy" THEN "sell" ELSE "buy" IN
     IF ~(objs[procs[p].taker].quantity > 0 /\ HeapOf(Engine, opp) # <<>>)
       THEN /\ procs' = [procs EXCEPT ![p].pc = "rest"]
            /\ UNCHANGED <<bids, asks, _seq, _next_order_id, trades,
                           _by_seq, _by_id, objs>>
       ELSE LET pk == _peek_top(Engine, opp) IN
            /\ Install(pk.self)
            /\ procs' = [procs EXCEPT ![p].pc = "test", ![p].best = pk.ret]
  /\ UNCHANGED <<call, ret, submitted, htVars>>

\* the crossing test on the order that was peeked
CrossTest(p) ==
  /\ procs[p].pc = "test"
  /\ LET best == procs[p].best IN
     IF \/ best = None
        \/ (procs[p].side = "buy" /\ objs[best].price > procs[p].price)
        \/ (procs[p].side = "sell" /\ objs[best].price < procs[p].price)
       THEN procs' = [procs EXCEPT ![p].pc = "rest"]
       ELSE procs' = [procs EXCEPT ![p].pc = "pop"]
  /\ UNCHANGED <<bids, asks, _seq, _next_order_id, trades, _by_seq, _by_id,
                 objs, call, ret, submitted, htVars>>

\* _pop_top and the fill quantity; maker.quantity on None raises
PopBest(p) ==
  /\ procs[p].pc = "pop"
  /\ LET opp == IF procs[p].side = "buy" THEN "sell" ELSE "buy"
         pp  == _pop_top(Engine, opp)
     IN  /\ Install(pp.self)
         /\ IF pp.ret = None
              THEN procs' = [procs EXCEPT ![p] = [Idle EXCEPT !.result = -1]]
              ELSE procs' = [procs EXCEPT
                     ![p].pc = "record",
                     ![p].maker = pp.ret,
                     ![p].fill = Min(objs[procs[p].taker].quantity,
                                     objs[pp.ret].quantity)]
  /\ UNCHANGED <<call, ret, submitted, htVars>>

\* _record_trade
RecordTrade(p) ==
  /\ procs[p].pc = "record"
  /\ Install(_record_trade(Engine, objs[procs[p].maker].price, procs[p].fill,
                           procs[p].side, objs[procs[p].maker].id,
                           objs[procs[p].taker].id))
  /\ procs' = [procs EXCEPT ![p].pc = "cleanup"]
  /\ UNCHANGED <<call, ret, submitted, htVars>>

\* _cleanup, then back to the loop condition
Cleanup(p) ==
  /\ procs[p].pc = "cleanup"
  /\ Install(_cleanup(Engine, procs[p].taker, procs[p].maker, procs[p].fill))
  /\ procs' = [procs EXCEPT ![p].pc = "loop"]
  /\ UNCHANGED <<call, ret, submitted, htVars>>

\* the end of add_order: the taker rests if quantity remains
Rest(p) ==
  /\ procs[p].pc = "rest"
  /\ IF objs[procs[p].taker].quantity > 0
       THEN /\ Install(_push([Engine EXCEPT
                                !._by_seq = setitem(@, procs[p].seq,
                                                    procs[p].taker),
                                !._by_id  = setitem(@, procs[p].order_id,
                                                    procs[p].taker)],
                             procs[p].taker))
            /\ procs' = [procs EXCEPT
                           ![p] = [Idle EXCEPT !.result = procs[p].order_id]]
       ELSE /\ procs' = [procs EXCEPT ![p] = [Idle EXCEPT !.result = 0]]
            /\ UNCHANGED <<bids, asks, _seq, _next_order_id, trades,
                           _by_seq, _by_id, objs>>
  /\ UNCHANGED <<call, ret, submitted, htVars>>

\* add_order as callers without a single-writer discipline run it
AddOrderSteps ==
  \E p \in Procs :
    \/ Begin(p)
    \/ LoopPeek(p)
    \/ CrossTest(p)
    \/ PopBest(p)
    \/ RecordTrade(p)
    \/ Cleanup(p)
    \/ Rest(p)

\* a call engine.add_order(side, price, quantity)
AddOrder ==
  \E side \in Sides, price \in Prices, quantity \in Quantities :
    /\ _next_order_id <= MaxOrders
    /\ LET r == add_order(Engine, side, price, quantity) IN
         /\ Install(r.self)
         /\ ret' = r.ret
         /\ call' = [op |-> "add_order", side |-> side, price |-> price,
                     quantity |-> quantity]
         /\ submitted' =
              IF r.self._next_order_id # _next_order_id
                THEN setitem(submitted, _next_order_id, quantity)
                ELSE submitted
    /\ UNCHANGED <<procs, htVars>>

\* a call engine.best_bid()
BestBid ==
  LET r == best_bid(Engine) IN
    /\ Install(r.self)
    /\ ret' = r.ret
    /\ call' = [op |-> "best_bid"]
    /\ UNCHANGED <<submitted, procs, htVars>>

\* a call engine.best_ask()
BestAsk ==
  LET r == best_ask(Engine) IN
    /\ Install(r.self)
    /\ ret' = r.ret
    /\ call' = [op |-> "best_ask"]
    /\ UNCHANGED <<submitted, procs, htVars>>

Next == AddOrder \/ BestBid \/ BestAsk

Spec == Init /\ [][Next]_vars

\* the engine driven by callers whose add_order calls interleave
NextSteps ==
  \E p \in Procs :
    \/ Begin(p)
    \/ LoopPeek(p)
    \/ CrossTest(p)
    \/ PopBest(p)
    \/ RecordTrade(p)
    \/ Cleanup(p)
    \/ Rest(p)

SpecSteps == Init /\ [][NextSteps]_vars

\* a new engine beside a table built with some initial_capacity
InitTable ==
  /\ bids = <<>>
  /\ asks = <<>>
  /\ _seq = 0
  /\ _next_order_id = 1
  /\ trades = <<>>
  /\ _by_seq = EmptyDict
  /\ _by_id = EmptyDict
  /\ objs = <<>>
  /\ call = [op |-> "__init__"]
  /\ ret = None
  /\ submitted = EmptyDict
  /\ procs = [p \in Procs |-> Idle]
  /\ \E initial_capacity \in 1..MaxInitialCapacity :
       table = OpenAddressingHashTable(initial_capacity)
  /\ ht_call = [op |-> "__init__", events |-> {}]
  /\ ht_ret = [status |-> "ok", value |-> Default]
  /\ shadow = EmptyDict

\* what a call did to the table, read off the table before and after
\* ("overwrite": the key of an insert was present before the call)
Events(key, old, new) ==
  {e \in {"grow", "clean", "reuse", "overwrite"} :
     \/ e = "grow" /\ new._capacity > old._capacity
     \/ e = "clean" /\ new._capacity = old._capacity
                    /\ old._deleted_count > 0 /\ new._deleted_count = 0
                    /\ new._size < old._size
     \/ e = "reuse" /\ new._capacity = old._capacity
                    /\ new._deleted_count = old._deleted_count - 1
                    /\ new._size = old._size + 1
     \/ e = "overwrite" /\ key \in DOMAIN shadow}

\* a call table.insert(key, value)
Insert ==
  \E key \in Keys, value \in Values :
    LET r == insert(table, key, value) IN
      /\ table' = r.self
      /\ ht_call' = [op |-> "insert", events |-> Events(key, table, r.self)]
      /\ ht_ret' = [status |-> r.status, value |-> Default]
      /\ shadow' = IF r.status = "ok" THEN setitem(shadow, key, value)
                                      ELSE shadow
      /\ UNCHANGED engineVars

\* a call table.get(key)
Get ==
  \E key \in Keys :
    LET r == ht_get(table, key, Default) IN
      /\ ht_call' = [op |-> "get", events |-> {}]
      /\ ht_ret' = r
      /\ UNCHANGED <<table, shadow, engineVars>>

\* a call table.delete(key)
Delete ==
  \E key \in Keys :
    LET r == delete(table, key) IN
      /\ table' = r.self
      /\ ht_call' = [op |-> "delete", events |-> Events(key, table, r.self)]
      /\ ht_ret' = [status |-> r.status, value |-> Default]
      /\ shadow' = IF r.status = "ok" THEN pop(shadow, key) ELSE shadow
      /\ UNCHANGED engineVars

NextTable == Insert \/ Get \/ Delete

SpecTable == InitTable /\ [][NextTable]_vars

\* -------------------------------------------------------------- properties
Range(f) == {f[x] : x \in DOMAIN f}

\* the Order object that was given the id
OrderById(id) == objs[CHOOSE r \in 1..Len(objs) : objs[r].id = id]

\* total quantity of the trades of the log at the indices S
RECURSIVE SumOver(_, _)
SumOver(log, S) ==
  IF S = {} THEN 0
  ELSE LET i == CHOOSE x \in S : TRUE
       IN  log[i].quantity + SumOver(log, S \ {i})

\* total quantity of the trades that name the id as maker or as taker
Filled(id) ==
  SumOver(trades, {i \in 1..Len(trades) :
                     \/ trades[i].maker_order_id = id
                     \/ trades[i].taker_order_id = id})

\* total quantity of the trades of the log in which the id was the taker
FilledAsTakerIn(log, id) ==
  SumOver(log, {i \in 1..Len(log) : log[i].taker_order_id = id})

FilledAsTaker(id) == FilledAsTakerIn(trades, id)

\* remaining quantity of the id if it is registered, else 0
Remaining(id) == IF id \in DOMAIN _by_id THEN objs[_by_id[id]].quantity ELSE 0

\* the registered orders of a side with positive quantity
Live(side) ==
  {r \in Range(_by_seq) : objs[r].side = side /\ objs[r].quantity > 0}

\* C1: quantity conservation.  For every order that add_order accepted, the
\* submitted quantity equals the total quantity of the trades naming it as
\* maker or taker plus its remaining quantity if it is registered (else 0).
C1_QuantityConservation ==
  \A id \in DOMAIN submitted : submitted[id] = Filled(id) + Remaining(id)

\* a maker that was partly filled and still rests, and an order that is gone
C1_Witness ==
  /\ \E id \in DOMAIN submitted : Filled(id) > 0 /\ Remaining(id) > 0
  /\ \E id \in DOMAIN submitted :
       id \notin DOMAIN _by_id /\ Filled(id) = submitted[id]

\* C3: no false crossing.  Every trade of the log satisfies the crossing
\* test: for a buy taker the maker's price is at most the taker's limit
\* price, for a sell taker the maker's price is at least the taker's.
C3_NoFalseCrossing ==
  \A i \in 1..Len(trades) :
    LET m == OrderById(trades[i].maker_order_id)
        t == OrderById(trades[i].taker_order_id)
    IN  /\ trades[i].taker_side = "buy"  => m.price <= t.price
        /\ trades[i].taker_side = "sell" => m.price >= t.price

\* trades of a buy taker and of a sell taker, each with price improvement
C3_Witness ==
  /\ \E i \in 1..Len(trades) :
       /\ trades[i].taker_side = "buy"
       /\ OrderById(trades[i].maker_order_id).price
            < OrderById(trades[i].taker_order_id).price
  /\ \E i \in 1..Len(trades) :
       /\ trades[i].taker_side = "sell"
       /\ OrderById(trades[i].maker_order_id).price
            > OrderById(trades[i].taker_order_id).price

\* C4: execution price rule.  The price of every trade record is the price
\* of the order named by maker_order_id.
C4_ExecutionPrice ==
  \A i \in 1..Len(trades) :
    trades[i].price = OrderById(trades[i].maker_order_id).price

\* a trade whose maker and taker prices differ
C4_Witness ==
  \E i \in 1..Len(trades) :
    /\ OrderById(trades[i].maker_order_id).price
         # OrderById(trades[i].taker_order_id).price
    /\ trades[i].price = OrderById(trades[i].maker_order_id).price

\* the live order of a side that price-time priority puts first
Better(side, a, b) ==
  \/ (side = "buy"  /\ objs[a].price > objs[b].price)
  \/ (side = "sell" /\ objs[a].price < objs[b].price)
  \/ (objs[a].price = objs[b].price /\ objs[a].sequence < objs[b].sequence)

ExpectedBest(side) ==
  IF Live(side) = {} THEN Absent
  ELSE LET top == CHOOSE a \in Live(side) :
                    \A b \in Live(side) \ {a} : Better(side, a, b)
       IN  <<objs[top].price, objs[top].quantity>>

\* C5: best_bid() is the (price, remaining quantity) of the live buy order
\* with the highest price, best_ask() that of the live sell order with the
\* lowest price, the smallest sequence among equal prices; each is absent
\* exactly when the side has no live order.
C5_BestOfBook ==
  /\ best_bid(Engine).ret = ExpectedBest("buy")
  /\ best_ask(Engine).ret = ExpectedBest("sell")
  /\ (best_bid(Engine).ret = Absent) <=> (Live("buy") = {})
  /\ (best_ask(Engine).ret = Absent) <=> (Live("sell") = {})
  /\ call.op = "best_bid" => ret = ExpectedBest("buy")
  /\ call.op = "best_ask" => ret = ExpectedBest("sell")

\* best_bid was just called on a book with bids at two prices, one of the
\* prices held by two orders
C5_Witness ==
  /\ call.op = "best_bid"
  /\ ret # Absent
  /\ \E a, b, c \in Live("buy") :
       /\ objs[a].price # objs[b].price
       /\ objs[b].price = objs[c].price /\ b # c
\* indices of the trades appended by the step
NewTrades == (Len(trades) + 1)..Len(trades')

\* quantity the step took from the maker before its j-th trade of the log
TakenBefore(j, id) ==
  SumOver(trades', {i \in NewTrades : i < j /\ trades'[i].maker_order_id = id})

\* C2: price-time priority.  When two orders rest on the same side at the
\* same price, a call fills the one with the larger sequence only after it
\* has filled the whole remaining quantity of the one with the smaller
\* sequence.
C2_Step ==
  \A a, b \in Range(_by_seq) :
    ( /\ objs[a].side = objs[b].side
      /\ objs[a].price = objs[b].price
      /\ objs[a].sequence < objs[b].sequence )
    => \A j \in NewTrades :
         trades'[j].maker_order_id = objs[b].id
           => TakenBefore(j, objs[a].id) = objs[a].quantity

C2_PriceTimePriority == [][C2_Step]_vars

\* one taker filled two makers of the same price, the earlier one first
C2_Witness ==
  \E i \in 1..(Len(trades) - 1) :
    LET a == OrderById(trades[i].maker_order_id)
        b == OrderById(trades[i + 1].maker_order_id)
    IN  /\ trades[i].taker_order_id = trades[i + 1].taker_order_id
        /\ a.price = b.price
        /\ a.sequence < b.sequence

\* C6: rejection.  add_order with quantity <= 0 returns 0 and changes
\* nothing: counters, registry, queues, orders and trade log are as before,
\* and so are the results of best_bid() and best_ask().
C6_Step ==
  (call'.op = "add_order" /\ call'.quantity <= 0)
  => /\ ret' = 0
     /\ UNCHANGED <<bids, asks, _seq, _next_order_id, trades, _by_seq,
                    _by_id, objs>>
     /\ (best_bid(Engine).ret)' = best_bid(Engine).ret
     /\ (best_ask(Engine).ret)' = best_ask(Engine).ret

C6_Rejection == [][C6_Step]_vars

\* a rejected call on a book that holds orders and trades
C6_Witness ==
  /\ call.op = "add_order"
  /\ call.quantity <= 0
  /\ ret = 0
  /\ DOMAIN _by_id # {}
  /\ trades # <<>>

\* no entry of the heap carries the sequence
NotQueued(heap, seq) == \A k \in 1..Len(heap) : heap[k][2] # seq

\* C7: add_order with quantity > 0 returns the new id exactly when quantity
\* remains after matching, and then the taker is registered under its id and
\* sequence and queued once on its own side with that remaining quantity; it
\* returns 0 exactly when the taker was filled completely, and then the taker
\* is not registered and on no queue, neither then nor later.
C7_Step ==
  (call'.op = "add_order" /\ call'.quantity > 0)
  => LET id    == _next_order_id
         seq   == _seq
         rem   == call'.quantity - FilledAsTakerIn(trades', id)
         own   == IF call'.side = "buy" THEN bids' ELSE asks'
         other == IF call'.side = "buy" THEN asks' ELSE bids'
         key   == IF call'.side = "buy" THEN -call'.price ELSE call'.price
     IN  /\ ret' \in {0, id}
         /\ (ret' = id) <=> (rem > 0)
         /\ (ret' = 0) <=> (rem = 0)
         /\ ret' = id =>
              /\ id \in DOMAIN _by_id'
              /\ seq \in DOMAIN _by_seq'
              /\ _by_id'[id] = _by_seq'[seq]
              /\ objs'[_by_id'[id]] =
                   [id |-> id, side |-> call'.side, price |-> call'.price,
                    quantity |-> rem, sequence |-> seq]
              /\ Cardinality({k \in 1..Len(own) : own[k] = <<key, seq>>}) = 1
              /\ Cardinality({k \in 1..Len(own) : own[k][2] = seq}) = 1
              /\ NotQueued(other, seq)
         /\ ret' = 0 =>
              /\ id \notin DOMAIN _by_id'
              /\ seq \notin DOMAIN _by_seq'
              /\ NotQueued(bids', seq)
              /\ NotQueued(asks', seq)

C7_Never ==
  \A r \in 1..Len(objs) :
    (submitted[objs[r].id] > 0
       /\ FilledAsTaker(objs[r].id) = submitted[objs[r].id])
    => /\ r \notin Range(_by_id)
       /\ r \notin Range(_by_seq)
       /\ NotQueued(bids, objs[r].sequence)
       /\ NotQueued(asks, objs[r].sequence)

C7_AddOrderResult == [][C7_Step]_vars /\ []C7_Never

\* the last call rested a taker that had been partly filled, and an earlier
\* taker was filled completely
C7_Witness ==
  /\ call.op = "add_order"
  /\ call.quantity > 0
  /\ ret # 0
  /\ FilledAsTaker(ret) > 0
  /\ \E id \in DOMAIN submitted : FilledAsTaker(id) = submitted[id]

\* C8: idempotent reads.  A second best_bid() (best_ask()) returns what the
\* first returned, a read of one side leaves the result of the other side as
\* it was, and the read that was just made would return the same again.
C8_IdempotentReads ==
  LET b == best_bid(Engine)
      a == best_ask(Engine)
  IN  /\ best_bid(b.self).ret = b.ret
      /\ best_ask(b.self).ret = a.ret
      /\ best_ask(a.self).ret = a.ret
      /\ best_bid(a.self).ret = b.ret
      /\ call.op = "best_bid" => ret = b.ret
      /\ call.op = "best_ask" => ret = a.ret

\* best_bid was just called on a book with two bids and an ask
C8_Witness ==
  /\ call.op = "best_bid"
  /\ ret # Absent
  /\ Cardinality(Live("buy")) >= 2
  /\ Live("sell") # {}

\* C9: registry invariant.  Both mappings hold the same orders, each under
\* its own sequence and id, all with quantity > 0; an order leaves both
\* mappings in the step whose fill brings its quantity to 0 and in no other;
\* only positive quantities are matched or reported by best_bid/best_ask.
C9_Inv ==
  /\ Range(_by_seq) = Range(_by_id)
  /\ \A q \in DOMAIN _by_seq : objs[_by_seq[q]].sequence = q
  /\ \A i \in DOMAIN _by_id : objs[_by_id[i]].id = i
  /\ \A r \in Range(_by_seq) \cup Range(_by_id) : objs[r].quantity > 0
  /\ best_bid(Engine).ret # Absent => best_bid(Engine).ret[2] > 0
  /\ best_ask(Engine).ret # Absent => best_ask(Engine).ret[2] > 0
  /\ (call.op \in {"best_bid", "best_ask"} /\ ret # Absent) => ret[2] > 0

C9_Step ==
  /\ \A r \in Range(_by_seq) \cup Range(_by_id) :
       (r \notin Range(_by_seq') \/ r \notin Range(_by_id'))
       => /\ r \notin Range(_by_seq')
          /\ r \notin Range(_by_id')
          /\ objs[r].quantity > 0
          /\ objs'[r].quantity = 0
          /\ \E j \in NewTrades : trades'[j].maker_order_id = objs[r].id
  /\ \A r \in Range(_by_seq) \cup Range(_by_id) :
       objs'[r].quantity > 0
       => r \in Range(_by_seq') /\ r \in Range(_by_id')
  /\ \A j \in NewTrades :
       /\ trades'[j].quantity > 0
       /\ trades'[j].maker_order_id \in DOMAIN _by_id
       /\ TakenBefore(j, trades'[j].maker_order_id) + trades'[j].quantity
            <= objs[_by_id[trades'[j].maker_order_id]].quantity

C9_Registry == []C9_Inv /\ [][C9_Step]_vars

\* one maker has left the registry by a fill, another was partly filled and
\* is still registered
C9_Witness ==
  /\ \E i \in 1..Len(trades) : trades[i].maker_order_id \notin DOMAIN _by_id
  /\ \E i \in 1..Len(trades) :
       /\ trades[i].maker_order_id \in DOMAIN _by_id
       /\ objs[_by_id[trades[i].maker_order_id]].quantity > 0

\* the queue of the side of an order
OwnHeap(side, bs, as) == IF side = "buy" THEN bs ELSE as

\* C10: partial fills keep time priority.  A maker that has been partly
\* filled keeps its sequence number and its queue entry carries it, and a
\* call fills an order that arrived later at the same price only after it
\* has filled the whole remaining quantity of that maker.
C10_Step ==
  /\ \A a, b \in Range(_by_seq) :
       ( /\ a < b
         /\ objs[a].side = objs[b].side
         /\ objs[a].price = objs[b].price
         /\ \E i \in 1..Len(trades) : trades[i].maker_order_id = objs[a].id )
       => \A j \in NewTrades :
            trades'[j].maker_order_id = objs[b].id
              => TakenBefore(j, objs[a].id) = objs[a].quantity
  /\ \A r \in Range(_by_seq) :
       (objs'[r].quantity > 0 /\ objs'[r].quantity < objs[r].quantity)
       => /\ objs'[r].sequence = objs[r].sequence
          /\ get(_by_seq', objs[r].sequence) = r
          /\ \E k \in 1..Len(OwnHeap(objs[r].side, bids', asks')) :
               OwnHeap(objs[r].side, bids', asks')[k][2] = objs[r].sequence

C10_PartialFillKeepsPriority == [][C10_Step]_vars

\* a maker was partly filled, a second order then arrived at its price, and
\* a later taker filled the rest of the maker before the second order
C10_Witness ==
  \E i, j, k \in 1..Len(trades) :
    LET a == OrderById(trades[i].maker_order_id)
        b == OrderById(trades[k].maker_order_id)
    IN  /\ i < j /\ k = j + 1
        /\ trades[j].maker_order_id = a.id
        /\ trades[i].taker_order_id < b.id
        /\ a.id < b.id
        /\ a.price = b.price
        /\ trades[j].taker_order_id = trades[k].taker_order_id
        /\ trades[i].taker_order_id # trades[j].taker_order_id

\* C11: identifier allocation.  The k-th add_order call with quantity > 0
\* gets id k and sequence k-1 whether or not the order rests; a non-zero
\* return value is larger than every id given out before; the id and the
\* sequence of an order never change; other calls leave the counters alone.
C11_Inv ==
  /\ _next_order_id = Len(objs) + 1
  /\ _seq = Len(objs)
  /\ \A r \in 1..Len(objs) : objs[r].id = r /\ objs[r].sequence = r - 1

C11_Step ==
  /\ \A r \in 1..Len(objs) :
       /\ r <= Len(objs')
       /\ objs'[r].id = objs[r].id
       /\ objs'[r].sequence = objs[r].sequence
  /\ IF call'.op = "add_order" /\ call'.quantity > 0
       THEN /\ Len(objs') = Len(objs) + 1
            /\ objs'[Len(objs')].id = _next_order_id
            /\ objs'[Len(objs')].sequence = _seq
            /\ _next_order_id' = _next_order_id + 1
            /\ _seq' = _seq + 1
            /\ ret' # 0 => /\ ret' = _next_order_id
                           /\ \A id \in DOMAIN submitted : id < ret'
       ELSE UNCHANGED <<_seq, _next_order_id, objs>>

C11_IdAllocation == []C11_Inv /\ [][C11_Step]_vars

\* an order came to rest after an earlier taker had been filled completely
C11_Witness ==
  /\ call.op = "add_order"
  /\ call.quantity > 0
  /\ ret = 3
  /\ \E id \in DOMAIN submitted :
       id < ret /\ id \notin DOMAIN _by_id /\ FilledAsTaker(id) = submitted[id]

\* C12: the trade log is append-only.  Every step keeps the log it found as
\* a prefix of the log it leaves, and only add_order lengthens it.
C12_Step ==
  /\ Len(trades') >= Len(trades)
  /\ SubSeq(trades', 1, Len(trades)) = trades
  /\ trades' # trades => call'.op = "add_order" /\ call'.quantity > 0

C12_AppendOnly == [][C12_Step]_vars

\* a read made on an engine whose log holds trades of two calls
C12_Witness ==
  /\ call.op \in {"best_bid", "best_ask"}
  /\ \E i, j \in 1..Len(trades) :
       i < j /\ trades[i].taker_order_id # trades[j].taker_order_id

Opp(side) == IF side = "buy" THEN "sell" ELSE "buy"

\* the crossing test of a taker of the side against a maker's price
Crosses(side, takerPrice, makerPrice) ==
  IF side = "buy" THEN makerPrice <= takerPrice ELSE makerPrice >= takerPrice

\* the live orders of a side under a registry and an object store
LiveOf(byseq, os, side) ==
  {r \in Range(byseq) : os[r].side = side /\ os[r].quantity > 0}

\* the heap without the entries whose sequence is in S
Without(heap, S) == SelectSeq(heap, LAMBDA e : e[2] \notin S)

\* C15: a failed crossing test consumes nothing.  A live opposite order that
\* does not cross the taker's price is left as it was, registered and in its
\* queue position; when the best opposite order does not cross, the call
\* appends no trade, changes no opposite order and rests the taker with its
\* full quantity; after one or more fills the orders left on the opposite
\* side are untouched, keep their queue order, and the taker rests with what
\* the fills left of it.
C15_Step ==
  (call'.op = "add_order" /\ call'.quantity > 0)
  => LET side     == call'.side
         opp      == Opp(side)
         taker    == Len(objs) + 1
         oldHeap  == OwnHeap(opp, bids, asks)
         newHeap  == OwnHeap(opp, bids', asks')
         live     == LiveOf(_by_seq, objs, opp)
         nonCross == {r \in live : ~Crosses(side, call'.price, objs[r].price)}
         gone     == {objs[r].sequence : r \in live \ Range(_by_seq')}
         rem      == call'.quantity
                       - FilledAsTakerIn(trades', _next_order_id)
     IN  /\ \A r \in nonCross :
              /\ objs'[r] = objs[r]
              /\ r \in Range(_by_seq') /\ r \in Range(_by_id')
              /\ \A j \in NewTrades :
                   trades'[j].maker_order_id # objs[r].id
         /\ newHeap = Without(oldHeap, gone)
         /\ (live # {} /\ nonCross = live) =>
              /\ trades' = trades
              /\ newHeap = oldHeap
              /\ \A r \in 1..Len(objs) : objs'[r] = objs[r]
              /\ ret' = _next_order_id
              /\ objs'[taker].quantity = call'.quantity
         /\ (NewTrades # {} /\ rem > 0) =>
              /\ ret' = _next_order_id
              /\ objs'[taker].quantity = rem
              /\ LiveOf(_by_seq', objs', opp) = nonCross

C15_FailedTestConsumesNothing == [][C15_Step]_vars

\* a taker was partly filled, met a maker that does not cross, and rests
C15_Witness ==
  /\ call.op = "add_order"
  /\ call.quantity > 0
  /\ ret # 0
  /\ FilledAsTaker(ret) > 0
  /\ \E r \in Live(Opp(call.side)) :
       ~Crosses(call.side, call.price, objs[r].price)

\* s is t with some of its entries left out
RECURSIVE IsSubSeq(_, _)
IsSubSeq(s, t) ==
  IF s = <<>> THEN TRUE
  ELSE IF t = <<>> THEN FALSE
  ELSE IF Head(s) = Head(t) THEN IsSubSeq(Tail(s), Tail(t))
  ELSE IsSubSeq(s, Tail(t))

\* the entries of the heap that resolve to a live order
LiveEntries(heap) ==
  SelectSeq(heap, LAMBDA e : /\ e[2] \in DOMAIN _by_seq
                             /\ objs[_by_seq[e[2]]].quantity > 0)

\* C16: best_bid() and best_ask() leave order quantities, both mappings, both
\* counters and the trade log unchanged; of the queues they change only the
\* one they read, and only by removing entries that do not resolve to a live
\* order.
C16_Step ==
  (call'.op \in {"best_bid", "best_ask"})
  => /\ UNCHANGED <<_seq, _next_order_id, trades, _by_seq, _by_id, objs>>
     /\ call'.op = "best_bid" => asks' = asks
     /\ call'.op = "best_ask" => bids' = bids
     /\ IsSubSeq(bids', bids) /\ IsSubSeq(asks', asks)
     /\ SelectSeq(bids', LAMBDA e : e \in Range(LiveEntries(bids)))
          = LiveEntries(bids)
     /\ SelectSeq(asks', LAMBDA e : e \in Range(LiveEntries(asks)))
          = LiveEntries(asks)

C16_ReadsFrame == [][C16_Step]_vars

\* best_ask was just called on a book with orders on both sides and trades
C16_Witness ==
  /\ call.op = "best_ask"
  /\ ret # Absent
  /\ Live("buy") # {}
  /\ Cardinality(Live("sell")) >= 2
  /\ trades # <<>>

\* C17: every add_order call ends after a bounded number of fills.  A call
\* appends at most as many trades as the opposite side had live orders, names
\* each maker in one trade only, fills the whole remaining quantity of the
\* maker in every trade but possibly the last, and leaves at most one maker
\* partly filled (re-pushed); a last trade that leaves its maker quantity
\* has used up the taker.
C17_Step ==
  (call'.op = "add_order" /\ call'.quantity > 0)
  => LET opp   == Opp(call'.side)
         live  == LiveOf(_by_seq, objs, opp)
         taker == Len(objs) + 1
         Maker(j) == get(_by_id, trades'[j].maker_order_id)
     IN  /\ Len(trades') - Len(trades) <= Cardinality(live)
         /\ \A j \in NewTrades : Maker(j) \in live
         /\ \A i, j \in NewTrades : i # j => Maker(i) # Maker(j)
         /\ \A j \in NewTrades :
              j < Len(trades')
              => /\ trades'[j].quantity = objs[Maker(j)].quantity
                 /\ objs'[Maker(j)].quantity = 0
                 /\ Maker(j) \notin Range(_by_seq')
         /\ \A j \in NewTrades :
              objs'[Maker(j)].quantity > 0
              => /\ j = Len(trades')
                 /\ objs'[taker].quantity = 0
                 /\ ret' = 0
         /\ Cardinality({r \in live : /\ objs'[r].quantity > 0
                                      /\ objs'[r].quantity < objs[r].quantity})
              <= 1

C17_BoundedFills == [][C17_Step]_vars

\* one call filled a first maker completely and a second maker in part
C17_Witness ==
  /\ call.op = "add_order"
  /\ ret = 0
  /\ \E i \in 1..(Len(trades) - 1) :
       /\ trades[i].taker_order_id = trades[i + 1].taker_order_id
       /\ i + 1 = Len(trades)
       /\ trades[i].maker_order_id \notin DOMAIN _by_id
       /\ trades[i + 1].maker_order_id \in DOMAIN _by_id

\* C18: the book is never crossed between calls.  When best_bid() and
\* best_ask() are both present, the bid price is below the ask price.
C18_BookNotCrossed ==
  LET b == best_bid(Engine).ret
      a == best_ask(Engine).ret
  IN  (b # Absent /\ a # Absent) => b[1] < a[1]

\* both sides hold an order, one of them what a partly filled taker left
C18_Witness ==
  /\ best_bid(Engine).ret # Absent
  /\ best_ask(Engine).ret # Absent
  /\ \E id \in DOMAIN _by_id : FilledAsTaker(id) > 0

\* the heap holds one entry, with the right key, for each registered order
\* of the side and nothing else
HeapExact(heap, side) ==
  /\ \A k \in 1..Len(heap) :
       /\ heap[k][2] \in DOMAIN _by_seq
       /\ objs[_by_seq[heap[k][2]]].side = side
       /\ objs[_by_seq[heap[k][2]]].quantity > 0
       /\ heap[k][1] = IF side = "buy" THEN -objs[_by_seq[heap[k][2]]].price
                                        ELSE objs[_by_seq[heap[k][2]]].price
  /\ \A r \in Range(_by_seq) :
       objs[r].side = side
       => Cardinality({k \in 1..Len(heap) : heap[k][2] = objs[r].sequence}) = 1
  /\ Len(heap) = Cardinality({r \in Range(_by_seq) : objs[r].side = side})

\* C19: under sequential use no tombstone exists.  Between calls each heap
\* holds exactly one entry for each registered order of its side and no
\* other entry; _peek_top removes nothing, _pop_top removes the top entry
\* only, and best_bid()/best_ask() leave both heaps as they were.
C19_Inv ==
  /\ HeapExact(bids, "buy")
  /\ HeapExact(asks, "sell")
  /\ _peek_top(Engine, "buy").self = Engine
  /\ _peek_top(Engine, "sell").self = Engine
  /\ bids # <<>> => _pop_top(Engine, "buy").self.bids = Tail(bids)
  /\ asks # <<>> => _pop_top(Engine, "sell").self.asks = Tail(asks)

C19_Step ==
  (call'.op \in {"best_bid", "best_ask"}) => UNCHANGED <<bids, asks>>

C19_NoTombstones == []C19_Inv /\ [][C19_Step]_vars

\* a read was made after a maker had been filled completely and another had
\* been filled in part and re-pushed
C19_Witness ==
  /\ call.op \in {"best_bid", "best_ask"}
  /\ ret # Absent
  /\ \E i \in 1..Len(trades) : trades[i].maker_order_id \notin DOMAIN _by_id
  /\ \E i \in 1..Len(trades) :
       /\ trades[i].maker_order_id \in DOMAIN _by_id
       /\ trades[i].quantity < submitted[trades[i].maker_order_id]

\* every trade of the log passes the crossing test of its taker
LogCrosses ==
  \A i \in 1..Len(trades) :
    Crosses(trades[i].taker_side,
            OrderById(trades[i].taker_order_id).price,
            OrderById(trades[i].maker_order_id).price)

\* no order is filled for more than it was submitted with
NoOverfill ==
  \A r \in 1..Len(objs) :
    /\ objs[r].quantity >= 0
    /\ Filled(objs[r].id) <= submitted[objs[r].id]

\* a trade is appended for a maker only when every live order of its side
\* with a better price, or the same price and a smaller sequence, has been
\* filled completely by the step
PriorityStep ==
  \A j \in NewTrades :
    LET b == CHOOSE r \in 1..Len(objs) :
               objs[r].id = trades'[j].maker_order_id
    IN  \A a \in LiveOf(_by_seq, objs, objs[b].side) \ {b} :
          Better(objs[b].side, a, b)
            => TakenBefore(j, objs[a].id) = objs[a].quantity

\* C14: add_order as an indivisible unit.  When every add_order call runs as
\* one step, no trade fails the crossing test, no order is filled beyond its
\* quantity and no maker is filled ahead of an order with priority over it.
\* (Run one matching-loop step at a time by two callers, the same engine
\* reaches a state that breaks this.)
C14_AtomicAddOrder ==
  [](LogCrosses /\ NoOverfill) /\ [][PriorityStep]_vars

\* two takers have each filled a maker of the same side
C14_Witness ==
  \E i, j \in 1..Len(trades) :
    /\ trades[i].taker_order_id # trades[j].taker_order_id
    /\ trades[i].taker_side = trades[j].taker_side
    /\ trades[i].maker_order_id # trades[j].maker_order_id

\* what a map holding the inserts not yet deleted returns for the key
MapGet(key) == IF key \in DOMAIN shadow THEN shadow[key] ELSE Default

\* C13: the table behaves as a map.  get(k) ends with the value of the last
\* insert of k that no delete followed, or with the default; len is the
\* number of keys present; an insert of a key that is present changes its
\* value and not len; a delete removes the key and nothing else.
C13_Inv ==
  /\ \A k \in Keys :
       ht_get(table, k, Default) = [status |-> "ok", value |-> MapGet(k)]
  /\ len(table) = Cardinality(DOMAIN shadow)
  /\ ht_call.op \in {"insert", "delete"} => ht_ret.status # "diverges"

\* keys whose get answers differently on the two tables
Changed(old, new) ==
  {k \in Keys : ht_get(new, k, Default) # ht_get(old, k, Default)}

C13_Step ==
  /\ ht_call'.op = "get"
       => /\ table' = table
          /\ \E k \in Keys : ht_ret'.value = MapGet(k)
  /\ (ht_call'.op = "insert" /\ "overwrite" \in ht_call'.events)
       => /\ len(table') = len(table)
          /\ Cardinality(Changed(table, table')) <= 1
  /\ (ht_call'.op = "insert" /\ ht_ret'.status = "ok")
       => len(table') \in {len(table), len(table) + 1}
  /\ (ht_call'.op = "delete" /\ ht_ret'.status = "ok")
       => /\ len(table') = len(table) - 1
          /\ \A k \in Changed(table, table') :
               ht_get(table', k, Default).value = Default
  /\ (ht_call'.op = "delete" /\ ht_ret'.status = "KeyError")
       => table' = table

C13_BehavesAsMap == []C13_Inv /\ [][C13_Step]_vars

\* an insert has just reused a tombstone slot of a table that has grown,
\* still holds a tombstone and holds both pairs of colliding keys
C13_Witness ==
  /\ ht_call.op = "insert"
  /\ "reuse" \in ht_call.events
  /\ table._capacity > MinCapacity
  /\ table._deleted_count > 0
  /\ {0, 16, -1, -2} \subseteq DOMAIN shadow

\* slots of the storage holding the sentinel
SlotsWith(self, sentinel) ==
  {i \in DOMAIN self._storage : self._storage[i] = sentinel}

\* C20: with the default max_load, _deleted_count is the number of tombstone
\* slots and _size + _deleted_count < _capacity, so that the storage has an
\* EMPTY slot and the probing loops of get, insert and delete end; a delete
\* of a key that is absent ends with KeyError and leaves the table as it was.
C20_Inv ==
  /\ table._deleted_count = Cardinality(SlotsWith(table, _DELETED))
  /\ table._size + table._deleted_count < table._capacity
  /\ SlotsWith(table, _EMPTY) # {}
  /\ DOMAIN table._storage = 0..(table._capacity - 1)
  /\ ht_ret.status # "diverges"
  /\ \A k \in Keys :
       /\ ht_get(table, k, Default).status = "ok"
       /\ delete(table, k).status \in {"ok", "KeyError"}
       /\ \A v \in Values : insert(table, k, v).status = "ok"
       /\ k \notin DOMAIN shadow
            => delete(table, k) = [status |-> "KeyError", self |-> table]

C20_Step ==
  (ht_call'.op = "delete" /\ ht_ret'.status = "KeyError")
  => table' = table /\ shadow' = shadow

C20_ProbingTerminates == []C20_Inv /\ [][C20_Step]_vars

\* a delete of an absent key was made on a table whose load is at the
\* resize threshold and which holds a tombstone
C20_Witness ==
  /\ ht_call.op = "delete"
  /\ ht_ret.status = "KeyError"
  /\ table._size = table._resize_threshold
  /\ table._deleted_count > 0

====
